---- MODULE Spec2Model ----
(***************************************************************************)
(* GeminiNetworkOS (src/onetool/interactive-gemini-network-controller.py): *)
(* the machine registry, the reachability prober, the operation dispatcher *)
(* (execute_operation), the two histories and the two-pass generation      *)
(* orchestrator (generate_interface, refine_image_prompt,                  *)
(* generate_interface_with_refined_prompt).                                *)
(*                                                                         *)
(* NetworkController (src/onetool/network-controller-poc.py): the          *)
(* inventory (add_machine), the remote command executor                    *)
(* (connect_to_machine, execute_command) and get_system_info.              *)
(*                                                                         *)
(* One action models one public call, run to completion.  What the network *)
(* and the two collaborators answer is chosen with \E inside the action.   *)
(* Python None is the string "None" where the field holds strings, and the *)
(* record [tag |-> "none"] where the field holds structured values.        *)
(***************************************************************************)
EXTENDS Integers, Sequences, FiniteSets, TLC

VARIABLES
    order,                \* key order of self.machines (dict insertion order)
    machines,             \* self.machines: name -> machine record
    operations_history,   \* self.operations_history
    prompt_history,       \* self.prompt_history
    conversation_history, \* self.conversation_history
    img_count,            \* self.img_count
    clock,                \* datetime.now(), one tick per public call
    last,                 \* the public call just made and the state it started from
    trace,                \* probes and collaborator calls made by that call, in order
    ret,                  \* what that call returned
    raised,               \* whether that call propagated an exception to its caller
    dispatches,           \* number of execute_operation calls made so far
    prompt_events,        \* number of prompts recorded so far
    ops_appended,         \* each operations_history entry as it read when appended
    prompts_appended,     \* each prompt_history entry as it read when appended
    nc_machines,          \* NetworkController.machines: name -> machine record
    ssh_connections,      \* NetworkController.ssh_connections: name -> SSHClient
    clients,              \* number of SSHClient objects connected so far
    opened,               \* name -> the clients connected for it (none is ever closed)
    attempted,            \* names with a connection attempt since they were added
    connect_calls,        \* number of direct connect_to_machine calls so far
    info_calls            \* number of get_system_info calls so far

\* the fields of the GeminiNetworkOS object, and of the NetworkController object
gem_vars == <<order, machines, operations_history, prompt_history,
              conversation_history, img_count, dispatches, prompt_events,
              ops_appended, prompts_appended>>
nc_vars == <<nc_machines, ssh_connections, clients, opened, attempted,
             connect_calls, info_calls>>

vars == <<gem_vars, nc_vars, clock, last, trace, ret, raised>>

----------------------------------------------------------------------------
(* Bounds *)

\* public calls made in one behaviour of Spec (dispatcher calls)
MaxCalls == 1
\* public calls made in one behaviour of SpecGen (orchestrator runs)
MaxGenCalls == 1
\* public calls made in one behaviour of SpecNet (NetworkController calls)
MaxNetCalls == 3
\* get_system_info calls among them
MaxInfoCalls == 1
\* commands that write to stderr in one get_system_info call
MaxStderr == 1
\* public calls made in one behaviour of SpecFront, the exports included
MaxFrontCalls == 2

----------------------------------------------------------------------------
(* Text: a str is a sequence of one-character strings *)

UpperLetters == <<"A","B","C","D","E","F","G","H","I","J","K","L","M",
                  "N","O","P","Q","R","S","T","U","V","W","X","Y","Z">>
LowerLetters == <<"a","b","c","d","e","f","g","h","i","j","k","l","m",
                  "n","o","p","q","r","s","t","u","v","w","x","y","z">>

\* str.lower() on one character
LowerChar(c) ==
    IF \E i \in 1..Len(UpperLetters) : UpperLetters[i] = c
    THEN LowerLetters[CHOOSE i \in 1..Len(UpperLetters) : UpperLetters[i] = c]
    ELSE c

\* str.lower()
Lower(s) == [i \in 1..Len(s) |-> LowerChar(s[i])]

\* needle in hay (substring test)
Contains(hay, needle) ==
    \E i \in 0..(Len(hay) - Len(needle)) :
        SubSeq(hay, i + 1, i + Len(needle)) = needle

\* the characters of a machine name (names are dict keys, kept as strings)
NameText(n) ==
    CASE n = "headless-server" ->
            <<"h","e","a","d","l","e","s","s","-","s","e","r","v","e","r">>
      [] n = "laptop" -> <<"l","a","p","t","o","p">>
      [] n = "server" -> <<"s","e","r","v","e","r">>
      [] n = "Laptop" -> <<"L","a","p","t","o","p">>
      [] OTHER -> <<"?">>

Sp == <<" ">>
KwPing == <<"p","i","n","g">>
KwScan == <<"s","c","a","n">>
KwDisk == <<"d","i","s","k">>
KwProcess == <<"p","r","o","c","e","s","s">>
KwOverview == <<"o","v","e","r","v","i","e","w">>
KwStatus == <<"s","t","a","t","u","s">>
KwTopology == <<"t","o","p","o","l","o","g","y">>
KwNetworkMap == <<"n","e","t","w","o","r","k"," ","m","a","p">>

----------------------------------------------------------------------------
(* The registry *)

\* the ip stored with a machine
IpOf(n) ==
    CASE n = "headless-server" -> "192.168.1.53"
      [] n = "laptop" -> "192.168.1.227"
      [] n = "Laptop" -> "192.168.1.227"
      [] n = "server" -> "10.0.0.1"
      [] OTHER -> "0.0.0.0"

NoPorts == [has |-> FALSE, ports |-> <<>>]
NoInfo == [has |-> FALSE]

\* a machine record as __init__ seeds it: status "unknown", no last_checked,
\* no open_ports and no real_info key
SeedMachine(n) ==
    [ip |-> IpOf(n), status |-> "unknown", last_checked |-> 0,
     open_ports |-> NoPorts, real_info |-> NoInfo]

\* self.machines is a plain public dict: the registry as __init__ seeds it, and
\* registries a caller has set up with other keys or another insertion order
Registries ==
    { <<"headless-server", "laptop">>,
      <<"laptop", "headless-server">>,
      <<"server", "laptop">>,
      <<"laptop">> }

Names == {order[i] : i \in 1..Len(order)}

available_operations ==
    <<"ping", "port scan", "check disk space", "list processes",
      "system overview", "network topology">>

Catalog == {available_operations[i] : i \in 1..Len(available_operations)}

\* self.system_info["ip"]
ControllerIp == "127.0.0.1"

----------------------------------------------------------------------------
(* Values *)

NoneV == [tag |-> "none"]

\* a decoded str, or None
Str(s) == IF s = "None" THEN NoneV ELSE [tag |-> "text", v |-> s]

\* str(e) of a caught exception
Exc(kind, detail) == [tag |-> "exception", kind |-> kind, v |-> detail]

\* d.get(k) taken as a condition: false when the key is absent
Truthy(d, k) == k \in DOMAIN d /\ d[k] = TRUE

\* an entry of trace: a probe of the machine at ip `on`, or a collaborator call or
\* a file write of pass `on`; ok tells whether it went through, info what it carried
Event(e, on, ok, info) == [ev |-> e, on |-> on, ok |-> ok, info |-> info]

----------------------------------------------------------------------------
(* Reachability prober *)

\* what the ping subprocess does: exit code 0; exit code 1 with nothing on
\* stderr (no reply); exit code 2 with a message on stderr; no exit within 2 s
PingOutcomes == {"exit0", "exit1", "exit2", "timeout"}

ping_machine(outcome) ==
    CASE outcome = "exit0" ->
            [success |-> TRUE, output |-> "stdout", error |-> "None"]
      [] outcome = "exit1" ->
            [success |-> FALSE, output |-> "stdout", error |-> ""]
      [] outcome = "exit2" ->
            [success |-> FALSE, output |-> "", error |-> "stderr"]
      [] OTHER ->
            [success |-> FALSE, output |-> "None", error |-> "Timeout while pinging"]

\* the ports scan_ports tries, in order
scan_list == <<22, 80, 443, 8080, 3306, 5432>>

common_services(port) ==
    CASE port = 22 -> "SSH"
      [] port = 80 -> "HTTP"
      [] port = 443 -> "HTTPS"
      [] port = 8080 -> "HTTP-ALT"
      [] port = 3306 -> "MySQL"
      [] port = 5432 -> "PostgreSQL"
      [] OTHER -> "Unknown"

\* what a scan meets: the set of ports open on the host, or a socket call that
\* raises (socket.socket() or connect_ex failing with OSError)
ScanOutcomes ==
    {[raises |-> TRUE, open |-> {}],
     [raises |-> FALSE, open |-> {}],
     [raises |-> FALSE, open |-> {22}]}

RECURSIVE OpenOf(_, _)
OpenOf(open, i) ==
    IF i > Len(scan_list) THEN <<>>
    ELSE (IF scan_list[i] \in open
          THEN <<[port |-> scan_list[i], service |-> common_services(scan_list[i])]>>
          ELSE <<>>) \o OpenOf(open, i + 1)

scan_ports(outcome) ==
    IF outcome.raises
    THEN [raised |-> TRUE, ports |-> <<>>]
    ELSE [raised |-> FALSE, ports |-> OpenOf(outcome.open, 1)]

\* the four commands get_real_machine_info runs, in order
info_commands == <<"df -h /", "ps aux | head -10", "uname -a", "free -h">>

\* what the SSH session of get_real_machine_info meets: everything goes
\* through, or ssh.connect raises, or one of the four commands raises
SshOutcomes == {"ok", "connect"} \cup {info_commands[i] : i \in 1..Len(info_commands)}

\* ssh: the outcome of the session; the except clause reports the step that raised
get_real_machine_info(m, machine_name, ssh, now) ==
    IF machine_name \notin DOMAIN m
    THEN [error |-> [tag |-> "not_found", target |-> machine_name]]
    ELSE IF ssh = "ok"
    THEN [success |-> TRUE,
          disk_info |-> [cmd |-> "df -h /", at |-> now],
          processes |-> [cmd |-> "ps aux | head -10", at |-> now],
          system_info |-> [cmd |-> "uname -a", at |-> now],
          memory_info |-> [cmd |-> "free -h", at |-> now]]
    ELSE [success |-> FALSE, error |-> Exc("SSHException", ssh)]

\* what one machine answers during a status cycle
CheckOutcomes ==
    {[up |-> FALSE, scan |-> [raises |-> FALSE, open |-> {}], ssh |-> FALSE]} \cup
    {[up |-> TRUE, scan |-> [raises |-> TRUE, open |-> {}], ssh |-> FALSE]} \cup
    {[up |-> TRUE, scan |-> s, ssh |-> b] :
        s \in {o \in ScanOutcomes : ~o.raises}, b \in BOOLEAN}

\* st threads the object through a call:
\*   m machines, h operations_history, a ops_appended, tr trace, n dispatches,
\*   raised: an exception is propagating
\* the record check_all_machines appends for `name`
StatusRecord(name, success, now) ==
    [operation |-> "check_status", target |-> name, timestamp |-> now,
     result |-> IF success THEN "success" ELSE "failed"]

\* status and last_checked are written first, whatever follows
Probed(st, name, success, now) ==
    [st EXCEPT !.m[name].status = IF success THEN "online" ELSE "offline",
               !.m[name].last_checked = now,
               !.tr = Append(st.tr, Event("ping", st.m[name].ip, success, NoneV))]

Recorded(st, name, success, now) ==
    [st EXCEPT !.h = Append(st.h, StatusRecord(name, success, now)),
               !.a = Append(st.a, StatusRecord(name, success, now))]

\* the `if ping_result["success"]:` block, the scan having returned
Scanned(st, name, ports, real_info) ==
    [st EXCEPT !.m[name].open_ports = [has |-> TRUE, ports |-> ports],
               !.m[name].real_info =
                    IF Truthy(real_info, "success")
                    THEN [has |-> TRUE, info |-> real_info]
                    ELSE st.m[name].real_info,
               !.tr = st.tr \o <<Event("scan", st.m[name].ip, TRUE, NoneV),
                                 Event("ssh", st.m[name].ip,
                                       Truthy(real_info, "success"), NoneV)>>]

\* the scan having raised: the exception leaves the loop
ScanRaised(st, name) ==
    [st EXCEPT !.raised = TRUE,
               !.tr = Append(st.tr, Event("scan", st.m[name].ip, FALSE, NoneV))]

\* one pass of the loop body of check_all_machines for `name`
CheckOne(st, name, o, now) ==
    LET ping_result == ping_machine(IF o.up THEN "exit0" ELSE "exit1")
    IN  IF ~ping_result.success
        THEN Recorded(Probed(st, name, FALSE, now), name, FALSE, now)
        ELSE IF scan_ports(o.scan).raised
        THEN ScanRaised(Probed(st, name, TRUE, now), name)
        ELSE Recorded(Scanned(Probed(st, name, TRUE, now), name,
                              scan_ports(o.scan).ports,
                              get_real_machine_info(st.m, name,
                                                    IF o.ssh THEN "ok" ELSE "connect",
                                                    now)),
                      name, TRUE, now)

\* check_all_machines: the machines in dict order, until one pass raises
RECURSIVE CheckFrom(_, _, _, _)
CheckFrom(st, i, env, now) ==
    IF i > Len(order) \/ st.raised THEN st
    ELSE CheckFrom(CheckOne(st, order[i], env[order[i]], now), i + 1, env, now)

check_all_machines(st, env, now) == CheckFrom(st, 1, env, now)

----------------------------------------------------------------------------
(* Operation dispatcher *)

\* an operations_history entry as a reader sees it: the data of a 'system
\* overview' record is a dict of the registry's own machine dicts, so it reads
\* whatever those dicts hold now
View(rec, m) ==
    IF "data" \in DOMAIN rec /\ rec.data.tag = "machines"
    THEN [rec EXCEPT !.data = [tag |-> "machines", v |-> m]]
    ELSE rec

\* an environment in which every probe fails quietly
QuietCheck == [up |-> FALSE, scan |-> [raises |-> FALSE, open |-> {}], ssh |-> FALSE]
QuietEnv ==
    [ping |-> "exit1", scan |-> [raises |-> FALSE, open |-> {}], ssh |-> "connect",
     all |-> [n \in Names |-> QuietCheck]]

\* the part of the environment an operation consults, the rest held fixed
EnvFor(operation, target) ==
    IF operation \in {"system overview", "network topology"}
    THEN {[QuietEnv EXCEPT !.all = e] : e \in [Names -> CheckOutcomes]}
    ELSE IF target \notin Names \/ operation \notin Catalog
    THEN {QuietEnv}
    ELSE IF operation = "ping"
    THEN {[QuietEnv EXCEPT !.ping = p] : p \in PingOutcomes}
    ELSE IF operation = "port scan"
    THEN {[QuietEnv EXCEPT !.scan = s] : s \in ScanOutcomes}
    ELSE {[QuietEnv EXCEPT !.ssh = o] : o \in SshOutcomes}

\* the message without the target in it
NotFound_Unnamed(target) == [tag |-> "not_found", target |-> "?"]

NotFound(target) == [tag |-> "not_found", target |-> target]

\* the 'network topology' payload; st.m holds both fixed names when this is built
Topology(m) ==
    [nodes |-> <<[name |-> "Router", ip |-> "192.168.1.1", type |-> "network"],
                 [name |-> "headless-server", ip |-> "192.168.1.53", type |-> "server",
                  status |-> m["headless-server"].status],
                 [name |-> "laptop", ip |-> "192.168.1.227", type |-> "workstation",
                  status |-> m["laptop"].status],
                 [name |-> "controller", ip |-> ControllerIp, type |-> "controller"]>>,
     connections |-> <<[from |-> "Router", to |-> "headless-server"],
                       [from |-> "Router", to |-> "laptop"],
                       [from |-> "Router", to |-> "controller"]>>]

Probe(st, ev, target, ok) ==
    [st EXCEPT !.tr = Append(st.tr, Event(ev, st.m[target].ip, ok, NoneV))]

\* the error field left as it was
Failed_Unset(result, error) == result

Failed(result, error) == [result EXCEPT !.error = error]
Succeeded(result, data) == [result EXCEPT !.success = TRUE, !.data = data]

PingBranch(st, result, target, ping_result) ==
    [st |-> Probe(st, "ping", target, ping_result.success),
     result |-> [result EXCEPT !.success = ping_result.success,
                               !.data = Str(ping_result.output),
                               !.error = Str(ping_result.error)]]

ScanBranch(st, result, target, open_ports) ==
    [st |-> Probe(st, "scan", target, ~open_ports.raised),
     result |-> IF open_ports.raised
                THEN Failed(result, Exc("OSError", "socket"))
                ELSE Succeeded(result, [tag |-> "ports", v |-> open_ports.ports])]

InfoBranch(st, result, target, real_info, key) ==
    [st |-> Probe(st, "ssh", target, Truthy(real_info, "success")),
     result |-> IF Truthy(real_info, "success")
                THEN Succeeded(result, [tag |-> "output", v |-> real_info[key]])
                ELSE Failed(result, real_info.error)]

\* 'system overview' after check_all_machines; a raise in it is caught by
\* the except clause of execute_operation
OverviewBranch(st1, result) ==
    [st |-> [st1 EXCEPT !.raised = FALSE],
     result |-> IF st1.raised
                THEN Failed(result, Exc("OSError", "socket"))
                ELSE Succeeded(result, [tag |-> "machines"])]

\* 'network topology' after check_all_machines: success is set to True, then
\* the payload is built, looking up the two fixed names
TopologyBranch(st1, result) ==
    [st |-> [st1 EXCEPT !.raised = FALSE],
     result |-> IF st1.raised
                THEN Failed(result, Exc("OSError", "socket"))
                ELSE IF "headless-server" \notin DOMAIN st1.m
                THEN [result EXCEPT !.success = TRUE,
                                    !.error = Exc("KeyError", "headless-server")]
                ELSE IF "laptop" \notin DOMAIN st1.m
                THEN [result EXCEPT !.success = TRUE,
                                    !.error = Exc("KeyError", "laptop")]
                ELSE Succeeded(result, [tag |-> "topology", v |-> Topology(st1.m)])]

\* the try block of execute_operation: [st, result]
ExecuteBody(st, result, operation, target, env, now) ==
    CASE operation \in {"ping", "port scan", "check disk space", "list processes"}
         /\ target \notin DOMAIN st.m ->
            [st |-> st, result |-> Failed(result, NotFound(target))]
      [] operation = "ping" /\ target \in DOMAIN st.m ->
            PingBranch(st, result, target, ping_machine(env.ping))
      [] operation = "port scan" /\ target \in DOMAIN st.m ->
            ScanBranch(st, result, target, scan_ports(env.scan))
      [] operation = "check disk space" /\ target \in DOMAIN st.m ->
            InfoBranch(st, result, target,
                       get_real_machine_info(st.m, target, env.ssh, now), "disk_info")
      [] operation = "list processes" /\ target \in DOMAIN st.m ->
            InfoBranch(st, result, target,
                       get_real_machine_info(st.m, target, env.ssh, now), "processes")
      [] operation = "system overview" ->
            OverviewBranch(check_all_machines(st, env.all, now), result)
      [] operation = "network topology" ->
            TopologyBranch(check_all_machines(st, env.all, now), result)
      [] OTHER ->
            [st |-> st,
             result |-> Failed(result, [tag |-> "unknown_op", operation |-> operation])]

\* the append and return that end execute_operation
RecordResult(b) ==
    [b.st EXCEPT !.h = Append(b.st.h, b.result),
                 !.a = Append(b.st.a, View(b.result, b.st.m)),
                 !.n = b.st.n + 1,
                 !.result = b.result]

\* execute_operation: the new st, with the returned record in st.result
execute_operation(st, operation, target, env, now) ==
    RecordResult(ExecuteBody(st,
                             [operation |-> operation, target |-> target,
                              timestamp |-> now, success |-> FALSE,
                              data |-> NoneV, error |-> NoneV],
                             operation, target, env, now))

----------------------------------------------------------------------------
(* Free-text front-end of generate_interface *)

NoQuery == [tag |-> "none"]
Text(chars) == [tag |-> "text", v |-> chars]

\* `if user_query:` is false for None and for the empty string
Falsy(user_query) == user_query.tag = "none" \/ user_query.v = <<>>

\* the machines whose name occurs in the lowered query, in dict order
NamedIn(lq) == SelectSeq(order, LAMBDA machine : Contains(lq, NameText(machine)))

\* an unmatched query dispatched as a 'system overview'
Plan_DefaultOverview(user_query) ==
    IF Falsy(user_query) THEN [operation |-> "none", targets |-> <<>>]
    ELSE LET lq == Lower(user_query.v)
             named == NamedIn(lq)
         IN  IF Contains(lq, KwPing) /\ named # <<>>
             THEN [operation |-> "ping", targets |-> named]
             ELSE IF Contains(lq, KwScan) /\ named # <<>>
             THEN [operation |-> "port scan", targets |-> named]
             ELSE IF Contains(lq, KwDisk) /\ named # <<>>
             THEN [operation |-> "check disk space", targets |-> named]
             ELSE IF Contains(lq, KwProcess) /\ named # <<>>
             THEN [operation |-> "list processes", targets |-> named]
             ELSE IF Contains(lq, KwOverview) \/ Contains(lq, KwStatus)
             THEN [operation |-> "system overview", targets |-> <<"None">>]
             ELSE IF Contains(lq, KwTopology) \/ Contains(lq, KwNetworkMap)
             THEN [operation |-> "network topology", targets |-> <<"None">>]
             ELSE [operation |-> "system overview", targets |-> <<"None">>]

\* the chain left at 'ping' when the query names no machine
Plan_StopsAtPing(user_query) ==
    IF Falsy(user_query) THEN [operation |-> "none", targets |-> <<>>]
    ELSE LET lq == Lower(user_query.v)
             named == NamedIn(lq)
         IN  IF Contains(lq, KwPing)
             THEN [operation |-> "ping", targets |-> named]
             ELSE IF Contains(lq, KwScan) /\ named # <<>>
             THEN [operation |-> "port scan", targets |-> named]
             ELSE IF Contains(lq, KwDisk) /\ named # <<>>
             THEN [operation |-> "check disk space", targets |-> named]
             ELSE IF Contains(lq, KwProcess) /\ named # <<>>
             THEN [operation |-> "list processes", targets |-> named]
             ELSE IF Contains(lq, KwOverview) \/ Contains(lq, KwStatus)
             THEN [operation |-> "system overview", targets |-> <<"None">>]
             ELSE IF Contains(lq, KwTopology) \/ Contains(lq, KwNetworkMap)
             THEN [operation |-> "network topology", targets |-> <<"None">>]
             ELSE [operation |-> "none", targets |-> <<>>]

\* the if/elif chain: the operation chosen and the targets it is dispatched to
Plan(user_query) ==
    IF Falsy(user_query) THEN [operation |-> "none", targets |-> <<>>]
    ELSE LET lq == Lower(user_query.v)
             named == NamedIn(lq)
         IN  IF Contains(lq, KwPing) /\ named # <<>>
             THEN [operation |-> "ping", targets |-> named]
             ELSE IF Contains(lq, KwScan) /\ named # <<>>
             THEN [operation |-> "port scan", targets |-> named]
             ELSE IF Contains(lq, KwDisk) /\ named # <<>>
             THEN [operation |-> "check disk space", targets |-> named]
             ELSE IF Contains(lq, KwProcess) /\ named # <<>>
             THEN [operation |-> "list processes", targets |-> named]
             ELSE IF Contains(lq, KwOverview) \/ Contains(lq, KwStatus)
             THEN [operation |-> "system overview", targets |-> <<"None">>]
             ELSE IF Contains(lq, KwTopology) \/ Contains(lq, KwNetworkMap)
             THEN [operation |-> "network topology", targets |-> <<"None">>]
             ELSE [operation |-> "none", targets |-> <<>>]

\* the loop left after its first dispatch
DispatchAll_FirstOnly(st, operation, targets, i, envs, now) ==
    IF Len(targets) = 0 THEN st
    ELSE execute_operation(st, operation, targets[1], envs[targets[1]], now)

\* the dispatch loop: execute_operation once per target, in the order given
RECURSIVE DispatchAll(_, _, _, _, _, _)
DispatchAll(st, operation, targets, i, envs, now) ==
    IF i > Len(targets) THEN st
    ELSE DispatchAll(execute_operation(st, operation, targets[i], envs[targets[i]], now),
                     operation, targets, i + 1, envs, now)

\* what the dispatches of one query meet: one environment per target
PlanEnvs(plan) ==
    LET T == {plan.targets[i] : i \in 1..Len(plan.targets)}
    IN  IF T = {} THEN {[t \in {} |-> QuietEnv]}
        ELSE [T -> EnvFor(plan.operation, plan.targets[1])]

----------------------------------------------------------------------------
(* Two-pass generation orchestrator *)

\* what the image collaborator's stream yields
ImageBytes == {"png_a", "png_b"}
ImageOutcomes ==
    {[kind |-> "error", data |-> "None"], [kind |-> "no_image", data |-> "None"]} \cup
    {[kind |-> "image", data |-> d] : d \in ImageBytes}

\* what the text-completion collaborator does: raises, answers without text,
\* answers with a rewritten prompt
RefineOutcomes == {"error", "none", "text"}

Bytes(d) == [tag |-> "bytes", v |-> d]
Path(prefix, n) == [tag |-> "path", prefix |-> prefix, n |-> n]
Msg(text) == [tag |-> "msg", v |-> text]

\* operations_history[-5:]
LastFive(h) == SubSeq(h, IF Len(h) > 5 THEN Len(h) - 4 ELSE 1, Len(h))

\* a prompt_history entry as a reader sees it (its network_info holds the
\* last five operation records themselves, not copies)
PromptView(rec, m) ==
    IF "network_info" \in DOMAIN rec
    THEN [rec EXCEPT !.network_info.operations_history =
              [i \in 1..Len(rec.network_info.operations_history) |->
                  View(rec.network_info.operations_history[i], m)]]
    ELSE rec

\* save_image: [raised, path, img_count]
save_image(ic, prefix, save_ok) ==
    IF save_ok
    THEN [raised |-> FALSE, path |-> Path(prefix, ic), img_count |-> ic + 1]
    ELSE [raised |-> TRUE, path |-> NoneV, img_count |-> ic]

\* gs threads the object through an orchestrator call: the fields of st, and
\*   p prompt_history, pa prompts_appended, pe prompt_events,
\*   c conversation_history, ic img_count, out the returned pair
Dispatched(gs, plan, envs, now) ==
    DispatchAll(gs, plan.operation, plan.targets, 1, envs, now)

\* the network_info dict: per machine the fields of its record, the last five
\* operation records, the catalog
NetworkInfo(gs) ==
    [machines |-> [name \in DOMAIN gs.m |-> gs.m[name]],
     operations_history |-> LastFive(gs.h),
     available_operations |-> available_operations]

\* the prompt text, formatted from network_info as it reads now
DraftPrompt(network_info, m) ==
    [kind |-> "draft",
     text |-> PromptView([network_info |-> network_info], m).network_info]

PromptItem(user_query, network_info, m, now) ==
    [user_query |-> user_query, prompt |-> DraftPrompt(network_info, m),
     timestamp |-> now, network_info |-> network_info]

\* self.prompt_history.append(...) of generate_interface
RecordPrompt(gs, user_query, now) ==
    [gs EXCEPT !.p = Append(gs.p, PromptItem(user_query, NetworkInfo(gs), gs.m, now)),
               !.pa = Append(gs.pa, PromptView(PromptItem(user_query, NetworkInfo(gs),
                                                          gs.m, now), gs.m)),
               !.pe = gs.pe + 1,
               !.tr = Append(gs.tr, Event("record_prompt", "draft", TRUE, NoneV))]

\* the try block of generate_interface
ImagePass(gs, user_query, first, saved, now) ==
    IF first.image.kind = "error"
    THEN [gs EXCEPT !.tr = Append(gs.tr, Event("image", "draft", FALSE, NoneV)),
                    !.out = <<NoneV, Msg("exception")>>]
    ELSE IF first.image.kind = "no_image"
    THEN [gs EXCEPT !.tr = Append(gs.tr, Event("image", "draft", FALSE, NoneV)),
                    !.out = <<NoneV, Msg("No image was generated")>>]
    ELSE IF saved.raised
    THEN [gs EXCEPT !.tr = gs.tr \o
                        <<Event("image", "draft", TRUE, Bytes(first.image.data)),
                          Event("save", "draft", FALSE, NoneV)>>,
                    !.out = <<NoneV, Msg("exception")>>]
    ELSE [gs EXCEPT !.tr = gs.tr \o
                        <<Event("image", "draft", TRUE, Bytes(first.image.data)),
                          Event("save", "draft", TRUE, saved.path)>>,
                    !.ic = saved.img_count,
                    !.c = Append(gs.c, [query |-> user_query, timestamp |-> now,
                                        image_path |-> saved.path]),
                    !.out = <<Bytes(first.image.data), saved.path>>]

\* generate_interface from the status refresh on; a raise in the refresh is
\* outside every try block
Refreshed(gs, user_query, first, now) ==
    IF gs.raised THEN gs
    ELSE ImagePass(RecordPrompt(gs, user_query, now), user_query, first,
                   save_image(gs.ic, "network_os", first.save_ok), now)

\* env: plan environments, check cycle, first (image outcome, save_ok)
generate_interface(gs, user_query, env, now) ==
    Refreshed(check_all_machines(Dispatched(gs, Plan(user_query), env.plan, now),
                                 env.check, now),
              user_query, env.first, now)

RefinedItem(user_query, refined_prompt, original_prompt, image_path, now) ==
    [user_query |-> [tag |-> "refined_for", v |-> user_query],
     prompt |-> refined_prompt,
     timestamp |-> now,
     original_prompt |-> original_prompt,
     original_image |-> image_path]

\* response.text
ResponseText(outcome, original_prompt) ==
    IF outcome = "text" THEN [kind |-> "refined", text |-> original_prompt] ELSE NoneV

\* refine_image_prompt: the new gs, with the returned prompt (or None) in gs.out
refine_image_prompt(gs, original_prompt, image_path, user_query, outcome, now) ==
    IF outcome = "error"
    THEN [gs EXCEPT !.tr = Append(gs.tr, Event("text", "refine", FALSE, NoneV)),
                    !.out = NoneV]
    ELSE [gs EXCEPT
            !.p = Append(gs.p, RefinedItem(user_query,
                                           ResponseText(outcome, original_prompt),
                                           original_prompt, image_path, now)),
            !.pa = Append(gs.pa, RefinedItem(user_query,
                                             ResponseText(outcome, original_prompt),
                                             original_prompt, image_path, now)),
            !.pe = gs.pe + 1,
            !.tr = gs.tr \o <<Event("text", "refine", outcome = "text", NoneV),
                              Event("record_prompt", "refined", TRUE, NoneV)>>,
            !.out = ResponseText(outcome, original_prompt)]

\* what the second pass meets
SecondOutcomes ==
    {[image |-> i, save_ok |-> FALSE, compare_ok |-> FALSE, write_ok |-> FALSE] :
        i \in ImageOutcomes} \cup
    {[image |-> i, save_ok |-> TRUE, compare_ok |-> c, write_ok |-> w] :
        i \in {o \in ImageOutcomes : o.kind = "image"}, c \in BOOLEAN, w \in BOOLEAN}

\* the conversation_history entry of the second pass
RefinedEntry(user_query, saved, img_path, compare_ok, now) ==
    [query |-> [tag |-> "refined_for", v |-> user_query],
     timestamp |-> now,
     image_path |-> saved.path,
     original_image_path |-> img_path,
     comparison_path |-> IF compare_ok THEN Path("comparison", saved.img_count)
                         ELSE NoneV]

\* the refined pair returned although the prompt-comparison write failed
SecondPass_IgnoresWrite(gs, image_data, img_path, user_query, second, saved, now) ==
    IF second.image.kind # "image"
    THEN [gs EXCEPT !.tr = Append(gs.tr, Event("image", "refined", FALSE, NoneV)),
                    !.out = <<image_data, img_path>>]
    ELSE IF saved.raised
    THEN [gs EXCEPT !.tr = gs.tr \o
                        <<Event("image", "refined", TRUE, Bytes(second.image.data)),
                          Event("save", "refined", FALSE, NoneV)>>,
                    !.out = <<image_data, img_path>>]
    ELSE [gs EXCEPT !.tr = gs.tr \o
                        <<Event("image", "refined", TRUE, Bytes(second.image.data)),
                          Event("save", "refined", TRUE, saved.path),
                          Event("compare", "refined", second.compare_ok, NoneV),
                          Event("write", "refined", second.write_ok, NoneV)>>,
                    !.ic = saved.img_count,
                    !.c = Append(gs.c, RefinedEntry(user_query, saved, img_path,
                                                    second.compare_ok, now)),
                    !.out = <<Bytes(second.image.data), saved.path>>]

\* the try block of generate_interface_with_refined_prompt
SecondPass(gs, image_data, img_path, user_query, second, saved, now) ==
    IF second.image.kind # "image"
    THEN [gs EXCEPT !.tr = Append(gs.tr, Event("image", "refined", FALSE, NoneV)),
                    !.out = <<image_data, img_path>>]
    ELSE IF saved.raised
    THEN [gs EXCEPT !.tr = gs.tr \o
                        <<Event("image", "refined", TRUE, Bytes(second.image.data)),
                          Event("save", "refined", FALSE, NoneV)>>,
                    !.out = <<image_data, img_path>>]
    ELSE [gs EXCEPT !.tr = gs.tr \o
                        <<Event("image", "refined", TRUE, Bytes(second.image.data)),
                          Event("save", "refined", TRUE, saved.path),
                          Event("compare", "refined", second.compare_ok, NoneV),
                          Event("write", "refined", second.write_ok, NoneV)>>,
                    !.ic = saved.img_count,
                    !.c = Append(gs.c, RefinedEntry(user_query, saved, img_path,
                                                    second.compare_ok, now)),
                    !.out = IF second.write_ok
                            THEN <<Bytes(second.image.data), saved.path>>
                            ELSE <<image_data, img_path>>]

\* a failed refinement reported as a failed run
Refined_DropsDraft(gs, image_data, img_path, user_query, second, now) ==
    IF gs.out = NoneV
    THEN [gs EXCEPT !.out = <<NoneV, Msg("Failed to refine prompt")>>]
    ELSE SecondPass(gs, image_data, img_path, user_query, second,
                    save_image(gs.ic, "refined_network_os", second.save_ok), now)

\* after refine_image_prompt returned
Refined(gs, image_data, img_path, user_query, second, now) ==
    IF gs.out = NoneV
    THEN [gs EXCEPT !.out = <<image_data, img_path>>]
    ELSE SecondPass(gs, image_data, img_path, user_query, second,
                    save_image(gs.ic, "refined_network_os", second.save_ok), now)

\* the refinement entered whatever the draft pass returned
Drafted_RefinesAnyway(gs, user_query, env, now) ==
    IF gs.raised THEN gs
    ELSE Refined(refine_image_prompt(gs, gs.p[Len(gs.p)].prompt, gs.out[2],
                                     user_query, env.refine, now),
                 gs.out[1], gs.out[2], user_query, env.second, now)

\* after generate_interface returned
Drafted(gs, user_query, env, now) ==
    IF gs.raised THEN gs
    ELSE IF gs.out[1] = NoneV
    THEN [gs EXCEPT !.out = <<NoneV, Msg("Failed to generate initial image")>>]
    ELSE Refined(refine_image_prompt(gs, gs.p[Len(gs.p)].prompt, gs.out[2],
                                     user_query, env.refine, now),
                 gs.out[1], gs.out[2], user_query, env.second, now)

generate_interface_with_refined_prompt(gs, user_query, env, now) ==
    Drafted(generate_interface(gs, user_query, env, now), user_query, env, now)

----------------------------------------------------------------------------
(* Export of the prompt history *)

\* "Refined prompt for:"
RefinedTag ==
    <<"R", "e", "f", "i", "n", "e", "d", " ", "p", "r", "o", "m", "p", "t", " ", "f", "o", "r", ":">>

\* str(None)
NoneText == <<"N", "o", "n", "e">>

\* the text of a user_query field: the caller's text, or
\* f"Refined prompt for: {user_query}" in a refinement record
QueryText(uq) ==
    IF uq.tag = "refined_for"
    THEN RefinedTag \o Sp \o (IF uq.v.tag = "none" THEN NoneText ELSE uq.v.v)
    ELSE uq.v

\* item.get(key, "")
GetOr(item, key) == IF key \in DOMAIN item THEN item[key] ELSE Msg("")

\* what the loop appends for item i of prompt_history (`entry` tells which
\* item the exported dict was made from)
RefinedExport(item, i) ==
    [entry |-> i, timestamp |-> item.timestamp, prompt |-> item.prompt,
     original_prompt |-> GetOr(item, "original_prompt"),
     original_image |-> GetOr(item, "original_image")]
OriginalExport(item, i) ==
    [entry |-> i, timestamp |-> item.timestamp, prompt |-> item.prompt,
     user_query |-> item.user_query]

\* one pass of the loop: `"Refined prompt for:" in None` raises TypeError
ClassifyOne(acc, item, i) ==
    IF item.user_query.tag = "none"
    THEN [acc EXCEPT !.raised = TRUE]
    ELSE IF Contains(QueryText(item.user_query), RefinedTag)
    THEN [acc EXCEPT !.refined = Append(acc.refined, RefinedExport(item, i))]
    ELSE IF "network_info" \in DOMAIN item
    THEN [acc EXCEPT !.original = Append(acc.original, OriginalExport(item, i))]
    ELSE acc

RECURSIVE ClassifyFrom(_, _, _)
ClassifyFrom(acc, p, i) ==
    IF i > Len(p) \/ acc.raised THEN acc
    ELSE ClassifyFrom(ClassifyOne(acc, p[i], i), p, i + 1)

\* after the loop: the lists are written to their files unless empty
Exported(acc, write_ok) ==
    IF acc.raised
    THEN [ok |-> FALSE, original |-> <<>>, refined |-> <<>>,
          tr |-> <<Event("classify", "export", FALSE, NoneV)>>]
    ELSE IF acc.original = <<>> /\ acc.refined = <<>>
    THEN [ok |-> TRUE, original |-> <<>>, refined |-> <<>>,
          tr |-> <<Event("classify", "export", TRUE, NoneV)>>]
    ELSE IF ~write_ok
    THEN [ok |-> FALSE, original |-> <<>>, refined |-> <<>>,
          tr |-> <<Event("classify", "export", TRUE, NoneV),
                   Event("write", "export", FALSE, NoneV)>>]
    ELSE [ok |-> TRUE, original |-> acc.original, refined |-> acc.refined,
          tr |-> <<Event("classify", "export", TRUE, NoneV),
                   Event("write", "export", TRUE, NoneV)>>]

\* save_comparison_prompts: whether it returned True, and the lists it wrote
\* to original_prompts.json and refined_prompts.json
save_comparison_prompts(p, write_ok) ==
    Exported(ClassifyFrom([raised |-> FALSE, original |-> <<>>, refined |-> <<>>],
                          p, 1),
             write_ok)

----------------------------------------------------------------------------
(* NetworkController: inventory and remote command executor *)

\* an empty dict
EmptyDict == [k \in {} |-> NoneV]

\* a machine record as add_machine writes it
NewMachine(ip, username, password, key_file) ==
    [ip |-> ip, username |-> username, password |-> password,
     key_file |-> key_file, status |-> "disconnected", info |-> EmptyDict]

\* ns threads the controller through a call:
\*   m machines, s ssh_connections, k clients, o opened, at attempted, tr trace,
\*   acc the results dict of get_system_info, raised, result
add_machine(ns, name, ip, username, password, key_file) ==
    [ns EXCEPT !.m = [n \in DOMAIN ns.m \cup {name} |->
                         IF n = name THEN NewMachine(ip, username, password, key_file)
                         ELSE ns.m[n]],
               !.at = ns.at \ {name},
               !.result = [tag |-> "self"]]

\* str(e) of what client.connect raises
ConnectErrors == {"timed out", "auth failed"}

\* what client.connect does
ConnectOutcomes == {"ok"} \cup ConnectErrors

\* the error client.connect raises while get_system_info runs
InfoConnectError == "timed out"

\* f"error: {str(e)}"
ErrorStatus(detail) ==
    CASE detail = "timed out" -> "error: timed out"
      [] detail = "auth failed" -> "error: auth failed"
      [] OTHER -> "error: "

\* the credential client.connect is given: key_filename if key_file is truthy,
\* the password otherwise
Via(machine) == IF machine.key_file \notin {"None", ""} THEN "key_file" ELSE "password"

\* a paramiko.SSHClient object
Client(id) == [tag |-> "client", id |-> id]

\* the try block of connect_to_machine went through
ConnectOk(ns, machine_name) ==
    [ns EXCEPT !.s = (machine_name :> Client(ns.k + 1)) @@ ns.s,
               !.k = ns.k + 1,
               !.o = ns.o \cup {<<machine_name, ns.k + 1>>},
               !.at = ns.at \cup {machine_name},
               !.m[machine_name].status = "connected",
               !.tr = Append(ns.tr, Event("connect", machine_name, TRUE,
                                          [tag |-> "client", id |-> ns.k + 1,
                                           via |-> Via(ns.m[machine_name])])),
               !.result = TRUE]

\* the failure recorded, the status left as it was
ConnectFailed_Unmarked(ns, machine_name, detail) ==
    [ns EXCEPT !.at = ns.at \cup {machine_name},
               !.tr = Append(ns.tr, Event("connect", machine_name, FALSE, Msg(detail))),
               !.result = FALSE]

\* the except clause of connect_to_machine
ConnectFailed(ns, machine_name, detail) ==
    [ns EXCEPT !.at = ns.at \cup {machine_name},
               !.m[machine_name].status = ErrorStatus(detail),
               !.tr = Append(ns.tr, Event("connect", machine_name, FALSE, Msg(detail))),
               !.result = FALSE]

connect_to_machine(ns, machine_name, outcome) ==
    IF machine_name \notin DOMAIN ns.m
    THEN [ns EXCEPT !.raised = TRUE, !.result = Exc("ValueError", machine_name)]
    ELSE IF outcome = "ok"
    THEN ConnectOk(ns, machine_name)
    ELSE ConnectFailed(ns, machine_name, outcome)

\* f"Cannot connect to {machine_name}"
CannotConnect(machine_name) == [tag |-> "cannot_connect", target |-> machine_name]

NoText == <<>>
\* what a command prints: a value with white space around it
OutText == <<" ", "v", "\n">>
ErrText == <<"e", "r", "r", "\n">>

WhiteSpace == {" ", "\n", "\t", "\r"}

\* str.strip()
RECURSIVE Strip(_)
Strip(s) ==
    IF s = <<>> THEN s
    ELSE IF Head(s) \in WhiteSpace THEN Strip(Tail(s))
    ELSE IF s[Len(s)] \in WhiteSpace THEN Strip(SubSeq(s, 1, Len(s) - 1))
    ELSE s

\* what exec_command and the two reads do: raise, or give stdout and stderr
ExecRaises == [raises |-> TRUE, stdout |-> NoText, stderr |-> NoText]
ExecClean == [raises |-> FALSE, stdout |-> OutText, stderr |-> NoText]
ExecStderr == [raises |-> FALSE, stdout |-> NoText, stderr |-> ErrText]
ExecOutcomes ==
    {ExecRaises} \cup
    {[raises |-> FALSE, stdout |-> o, stderr |-> e] :
        o \in {NoText, OutText}, e \in {NoText, ErrText}}

\* the try block of execute_command, on the client stored for the machine
Run(ns, machine_name, command, exec) ==
    [ns EXCEPT !.tr = Append(ns.tr, Event("exec", machine_name, ~exec.raises,
                                          [client |-> ns.s[machine_name],
                                           cmd |-> command,
                                           stderr |-> exec.stderr])),
               !.result = IF exec.raises
                          THEN [error |-> Exc("SSHException", "exec")]
                          ELSE [stdout |-> exec.stdout, stderr |-> exec.stderr,
                                success |-> exec.stderr = NoText]]

\* after connect_to_machine returned
Connected(c, machine_name, command, exec) ==
    IF c.raised THEN c
    ELSE IF ~c.result
    THEN [c EXCEPT !.result = [error |-> CannotConnect(machine_name)]]
    ELSE Run(c, machine_name, command, exec)

\* a connection made for every command, whether a session is stored or not
execute_command_Reconnects(ns, machine_name, command, env) ==
    Connected(connect_to_machine(ns, machine_name, env.connect),
              machine_name, command, env.exec)

\* env: connect (consulted when no session is stored), exec
execute_command(ns, machine_name, command, env) ==
    IF machine_name \notin DOMAIN ns.s
    THEN Connected(connect_to_machine(ns, machine_name, env.connect),
                   machine_name, command, env.exec)
    ELSE Run(ns, machine_name, command, env.exec)

\* the commands dict of get_system_info, in its order
commands ==
    <<[key |-> "hostname", cmd |-> "hostname"],
      [key |-> "cpu_info",
       cmd |-> "lscpu | grep 'Model name' | cut -d: -f2 | sed 's/^ *//'"],
      [key |-> "memory", cmd |-> "free -h | grep Mem | awk '{print $2}'"],
      [key |-> "disk", cmd |-> "df -h / | awk 'NR==2 {print $2}'"],
      [key |-> "uptime", cmd |-> "uptime -p"],
      [key |-> "load", cmd |-> "uptime | awk -F'load average:' '{ print $2 }'"],
      [key |-> "processes", cmd |-> "ps aux | wc -l"],
      [key |-> "distro",
       cmd |-> "cat /etc/os-release | grep PRETTY_NAME | cut -d= -f2 | tr -d '\"'"]>>

\* the body of the loop after execute_command returned
Collected(ns, key) ==
    IF ns.raised \/ "error" \in DOMAIN ns.result THEN ns
    ELSE [ns EXCEPT !.acc = (key :> Strip(ns.result.stdout)) @@ ns.acc]

RECURSIVE InfoFrom(_, _, _, _)
InfoFrom(ns, i, machine_name, envs) ==
    IF ns.raised THEN ns
    ELSE IF i > Len(commands)
    THEN [ns EXCEPT !.m[machine_name].info = ns.acc, !.result = ns.acc]
    ELSE InfoFrom(Collected(execute_command(ns, machine_name, commands[i].cmd, envs[i]),
                            commands[i].key),
                  i + 1, machine_name, envs)

\* envs: what each of the eight execute_command calls meets
get_system_info(ns, machine_name, envs) == InfoFrom(ns, 1, machine_name, envs)

----------------------------------------------------------------------------
(* The object and its public calls *)

NoCall == [call |-> "none"]

\* the two objects after construction, the registry being one of `registries`
InitOn(registries) ==
    /\ order \in registries
    /\ machines = [n \in Names |-> SeedMachine(n)]
    /\ operations_history = <<>>
    /\ prompt_history = <<>>
    /\ conversation_history = <<>>
    /\ img_count = 0
    /\ clock = 1
    /\ last = NoCall
    /\ trace = <<>>
    /\ ret = NoneV
    /\ raised = FALSE
    /\ dispatches = 0
    /\ prompt_events = 0
    /\ ops_appended = <<>>
    /\ prompts_appended = <<>>
    /\ nc_machines = EmptyDict
    /\ ssh_connections = EmptyDict
    /\ clients = 0
    /\ opened = {}
    /\ attempted = {}
    /\ connect_calls = 0
    /\ info_calls = 0

Init == InitOn(Registries)

\* the object as a call finds it
Start ==
    [m |-> machines, h |-> operations_history, a |-> ops_appended, tr |-> <<>>,
     n |-> dispatches, raised |-> FALSE, result |-> NoneV]

\* operation names a caller may pass: the catalog and two names outside it
Operations == Catalog \cup {"reboot", "PING"}

\* targets a caller may pass: the registered names, None, an unregistered name
Targets == Names \cup {"None", "ghost"}

ExecuteOperation(operation, target) ==
    /\ clock <= MaxCalls
    /\ \E env \in EnvFor(operation, target) :
          LET st == execute_operation(Start, operation, target, env, clock)
          IN  /\ machines' = st.m
              /\ operations_history' = st.h
              /\ ops_appended' = st.a
              /\ dispatches' = st.n
              /\ trace' = st.tr
              /\ ret' = st.result
              /\ raised' = st.raised
    /\ last' = [call |-> "execute_operation", operation |-> operation,
                target |-> target, machines |-> machines,
                ops |-> Len(operations_history)]
    /\ clock' = clock + 1
    /\ UNCHANGED <<order, prompt_history, conversation_history, img_count,
                   prompt_events, prompts_appended, nc_vars>>

\* the object as an orchestrator call finds it
GenStart ==
    [m |-> machines, h |-> operations_history, a |-> ops_appended, tr |-> <<>>,
     n |-> dispatches, raised |-> FALSE, result |-> NoneV,
     p |-> prompt_history, pa |-> prompts_appended, pe |-> prompt_events,
     c |-> conversation_history, ic |-> img_count, out |-> NoneV]

\* queries a caller may pass
Queries ==
    { NoQuery,
      Text(KwPing \o Sp \o NameText("headless-server") \o Sp \o NameText("laptop")),
      Text(<<"P","I","N","G">> \o Sp \o NameText("laptop")),
      Text(KwPing),
      Text(KwScan \o Sp \o NameText("laptop")),
      Text(<<"s","h","o","w">> \o Sp \o KwStatus),
      Text(<<"h","e","l","l","o">>) }

\* what the image call and the save of a first pass meet (save_ok is consulted
\* only when the stream carried an image)
FirstOutcomes ==
    {[image |-> i, save_ok |-> FALSE] : i \in ImageOutcomes} \cup
    {[image |-> i, save_ok |-> TRUE] : i \in {o \in ImageOutcomes : o.kind = "image"}}

QuietSecond ==
    [image |-> [kind |-> "error", data |-> "None"], save_ok |-> FALSE,
     compare_ok |-> FALSE, write_ok |-> FALSE]

\* what the refinement and the second pass meet, after a first pass `first`
\* (neither is consulted unless the step before it succeeded)
LaterOutcomes(first) ==
    IF ~(first.image.kind = "image" /\ first.save_ok)
    THEN {[refine |-> "error", second |-> QuietSecond]}
    ELSE {[refine |-> r, second |-> QuietSecond] : r \in RefineOutcomes \ {"text"}} \cup
         {[refine |-> "text", second |-> s] : s \in SecondOutcomes}

\* what the first pass of an orchestrator call meets
GenEnvs(user_query) ==
    [plan : PlanEnvs(Plan(user_query)), check : [Names -> CheckOutcomes],
     first : FirstOutcomes]

Commit(gs) ==
    /\ machines' = gs.m
    /\ operations_history' = gs.h
    /\ ops_appended' = gs.a
    /\ dispatches' = gs.n
    /\ prompt_history' = gs.p
    /\ prompts_appended' = gs.pa
    /\ prompt_events' = gs.pe
    /\ conversation_history' = gs.c
    /\ img_count' = gs.ic
    /\ trace' = gs.tr
    /\ raised' = gs.raised
    /\ ret' = IF gs.raised THEN NoneV ELSE gs.out

CallInfo(call, user_query) ==
    [call |-> call, user_query |-> user_query, machines |-> machines,
     ops |-> Len(operations_history), prompts |-> Len(prompt_history),
     dispatches |-> dispatches, convs |-> Len(conversation_history)]

GenerateInterface(user_query) ==
    /\ clock <= MaxGenCalls
    /\ \E env \in GenEnvs(user_query) :
          Commit(generate_interface(GenStart, user_query, env, clock))
    /\ last' = CallInfo("generate_interface", user_query)
    /\ clock' = clock + 1
    /\ UNCHANGED <<order, nc_vars>>

GenerateInterfaceWithRefinedPrompt(user_query) ==
    /\ clock <= MaxGenCalls
    /\ \E env \in GenEnvs(user_query) :
          \E later \in LaterOutcomes(env.first) :
             Commit(generate_interface_with_refined_prompt(
                        GenStart, user_query,
                        [plan |-> env.plan, check |-> env.check, first |-> env.first,
                         refine |-> later.refine, second |-> later.second],
                        clock))
    /\ last' = CallInfo("generate_interface_with_refined_prompt", user_query)
    /\ clock' = clock + 1
    /\ UNCHANGED <<order, nc_vars>>

Next == \E operation \in Operations, target \in Targets :
            ExecuteOperation(operation, target)

Spec == Init /\ [][Next]_vars

NextGen ==
    \/ \E user_query \in Queries : GenerateInterface(user_query)
    \/ \E user_query \in Queries : GenerateInterfaceWithRefinedPrompt(user_query)

SpecGen == Init /\ [][NextGen]_vars

----------------------------------------------------------------------------
(* The free-text front-end and the export, on their own queries *)

\* registries: the seeded one, and one whose only name has an upper-case letter
FrontRegistries == {<<"headless-server", "laptop">>, <<"Laptop">>}

Hello == <<"h", "e", "l", "l", "o">>

\* queries a caller may pass to generate_interface
FrontQueries ==
    { NoQuery,
      Text(<<>>),
      Text(Hello),
      Text(<<"P","I","N","G">> \o Sp \o NameText("laptop")),
      Text(KwPing \o Sp \o NameText("Laptop")),
      Text(KwPing \o Sp \o KwDisk \o Sp \o NameText("laptop")),
      Text(KwPing \o Sp \o KwStatus),
      Text(RefinedTag \o Sp \o Hello) }

\* queries a caller may pass to generate_interface_with_refined_prompt
ExportQueries == {NoQuery, Text(Hello)}

SaveComparisonPrompts ==
    /\ clock <= MaxFrontCalls
    /\ \E write_ok \in BOOLEAN :
          LET out == save_comparison_prompts(prompt_history, write_ok)
          IN  /\ ret' = [ok |-> out.ok, original |-> out.original,
                         refined |-> out.refined]
              /\ trace' = out.tr
    /\ raised' = FALSE
    /\ last' = CallInfo("save_comparison_prompts", NoQuery)
    /\ clock' = clock + 1
    /\ UNCHANGED <<gem_vars, nc_vars>>

NextFront ==
    \/ \E user_query \in FrontQueries : GenerateInterface(user_query)
    \/ \E user_query \in ExportQueries : GenerateInterfaceWithRefinedPrompt(user_query)
    \/ SaveComparisonPrompts

InitFront == InitOn(FrontRegistries)

SpecFront == InitFront /\ [][NextFront]_vars

----------------------------------------------------------------------------
(* The NetworkController object and its public calls *)

\* the controller as a call finds it
NcStart ==
    [m |-> nc_machines, s |-> ssh_connections, k |-> clients, o |-> opened,
     at |-> attempted, tr |-> <<>>, acc |-> EmptyDict, raised |-> FALSE,
     result |-> NoneV]

NcCommit(ns) ==
    /\ nc_machines' = ns.m
    /\ ssh_connections' = ns.s
    /\ clients' = ns.k
    /\ opened' = ns.o
    /\ attempted' = ns.at
    /\ trace' = ns.tr
    /\ raised' = ns.raised
    /\ ret' = IF ns.raised THEN NoneV ELSE ns.result

NcCall(call, name) ==
    [call |-> call, name |-> name, nc_machines |-> nc_machines,
     ssh_connections |-> ssh_connections, clients |-> clients]

\* machine names a caller may pass
NetNames == {"headless-server", "laptop"}

\* address and credentials a caller may register a machine with
Profiles ==
    {[ip |-> "192.168.1.53", username |-> "user", password |-> "password",
      key_file |-> "None"],
     [ip |-> "192.168.1.227", username |-> "admin", password |-> "None",
      key_file |-> "id_rsa"]}

\* commands a caller may pass to execute_command
CallerCommands == {"hostname"}

AddMachine(name, p) ==
    /\ clock <= MaxNetCalls
    /\ NcCommit(add_machine(NcStart, name, p.ip, p.username, p.password, p.key_file))
    /\ last' = NcCall("add_machine", name)
    /\ clock' = clock + 1
    /\ UNCHANGED <<gem_vars, connect_calls, info_calls>>

\* the outcomes of client.connect that a call on `name` consults
ConnectEnvs(name) ==
    IF name \in DOMAIN nc_machines THEN ConnectOutcomes ELSE {"ok"}

ConnectToMachine(name) ==
    /\ clock <= MaxNetCalls
    /\ \E outcome \in ConnectEnvs(name) :
          NcCommit(connect_to_machine(NcStart, name, outcome))
    /\ last' = NcCall("connect_to_machine", name)
    /\ connect_calls' = connect_calls + 1
    /\ clock' = clock + 1
    /\ UNCHANGED <<gem_vars, info_calls>>

\* what one execute_command call meets: the connect outcome where it connects,
\* the exec outcome where it gets as far as exec_command
ExecEnvs(name, has_session, execs) ==
    IF has_session
    THEN {[connect |-> "ok", exec |-> e] : e \in execs}
    ELSE IF name \notin DOMAIN nc_machines
    THEN {[connect |-> "ok", exec |-> ExecRaises]}
    ELSE {[connect |-> c, exec |-> ExecRaises] : c \in ConnectErrors} \cup
         {[connect |-> "ok", exec |-> e] : e \in execs}

ExecuteCommand(name, command) ==
    /\ clock <= MaxNetCalls
    /\ \E env \in ExecEnvs(name, name \in DOMAIN ssh_connections, ExecOutcomes) :
          NcCommit(execute_command(NcStart, name, command, env))
    /\ last' = NcCall("execute_command", name)
    /\ clock' = clock + 1
    /\ UNCHANGED <<gem_vars, connect_calls, info_calls>>

\* what the eight execute_command calls of one get_system_info meet: connecting
\* fails until it succeeds once, then every command meets an exec outcome; at
\* most `budget` commands write to stderr
RECURSIVE CommandEnvs(_, _, _, _)
CommandEnvs(n, name, has_session, budget) ==
    IF n = 0 THEN {<<>>}
    ELSE IF name \notin DOMAIN nc_machines
    THEN {[i \in 1..n |-> [connect |-> "ok", exec |-> ExecRaises]]}
    ELSE IF has_session
    THEN {<<[connect |-> "ok", exec |-> e]>> \o rest :
             e \in {ExecRaises, ExecClean},
             rest \in CommandEnvs(n - 1, name, TRUE, budget)} \cup
         (IF budget = 0 THEN {}
          ELSE {<<[connect |-> "ok", exec |-> ExecStderr]>> \o rest :
                   rest \in CommandEnvs(n - 1, name, TRUE, budget - 1)})
    ELSE {<<[connect |-> InfoConnectError, exec |-> ExecRaises]>> \o rest :
             rest \in CommandEnvs(n - 1, name, FALSE, budget)} \cup
         {<<[connect |-> "ok", exec |-> e]>> \o rest :
             e \in {ExecRaises, ExecClean},
             rest \in CommandEnvs(n - 1, name, TRUE, budget)} \cup
         (IF budget = 0 THEN {}
          ELSE {<<[connect |-> "ok", exec |-> ExecStderr]>> \o rest :
                   rest \in CommandEnvs(n - 1, name, TRUE, budget - 1)})

GetSystemInfo(name) ==
    /\ clock <= MaxNetCalls
    /\ info_calls < MaxInfoCalls
    /\ \E envs \in CommandEnvs(Len(commands), name,
                               name \in DOMAIN ssh_connections, MaxStderr) :
          NcCommit(get_system_info(NcStart, name, envs))
    /\ last' = NcCall("get_system_info", name)
    /\ info_calls' = info_calls + 1
    /\ clock' = clock + 1
    /\ UNCHANGED <<gem_vars, connect_calls>>

NextNet ==
    \/ \E name \in NetNames, p \in Profiles : AddMachine(name, p)
    \/ \E name \in NetNames : ConnectToMachine(name)
    \/ \E name \in NetNames, command \in CallerCommands : ExecuteCommand(name, command)
    \/ \E name \in NetNames : GetSystemInfo(name)

\* the first registry of Registries: the GeminiNetworkOS object stays as seeded
InitNet == Init /\ order = <<"headless-server", "laptop">>

SpecNet == InitNet /\ [][NextNet]_vars

----------------------------------------------------------------------------
(* Properties *)

IsExecute == last.call = "execute_operation"
IsGenerate ==
    last.call \in {"generate_interface", "generate_interface_with_refined_prompt"}

\* the entries of trace of one kind
Events(ev) == SelectSeq(trace, LAMBDA e : e.ev = ev)
SomeFailed(ev) == \E i \in 1..Len(trace) : trace[i].ev = ev /\ ~trace[i].ok

\* the operations_history entries the last call appended
Appended == SubSeq(operations_history, last.ops + 1, Len(operations_history))

\* C1: one call to execute_operation lengthens operations_history by exactly
\* one entry, for every operation name and target, 'system overview' and
\* 'network topology' included.
C1_HistoryGrowsByOne ==
    IsExecute => Len(operations_history) = last.ops + 1

\* C2: after execute_operation('ping', m) on a registered machine m whose
\* liveness probe fails, the returned record has operation 'ping', target m and
\* success false, and the registry's status of m is 'offline'.
C2_FailedPingMarksOffline ==
    (IsExecute /\ last.operation = "ping" /\ last.target \in Names
        /\ SomeFailed("ping"))
    => /\ ret.operation = "ping"
       /\ ret.target = last.target
       /\ ret.success = FALSE
       /\ machines[last.target].status = "offline"

\* C3: in generate_interface_with_refined_prompt, when the draft pass produced
\* an image and the text-completion collaborator fails (raises, or answers
\* without text), the returned pair is the draft pass's image bytes and the
\* path the draft image was saved under.
C3_RefinementFallback ==
    (last.call = "generate_interface_with_refined_prompt" /\ SomeFailed("text"))
    => /\ ~raised
       /\ Len(Events("image")) = 1
       /\ Len(Events("save")) = 1
       /\ ret[1] = Events("image")[1].info
       /\ ret[1].tag = "bytes"
       /\ ret[2] = Events("save")[1].info
       /\ ret[2].tag = "path"

C3_Witness ==
    /\ last.call = "generate_interface_with_refined_prompt"
    /\ SomeFailed("text")
    /\ ret[1] = [tag |-> "bytes", v |-> "png_b"]
    /\ ret[2] = [tag |-> "path", prefix |-> "network_os", n |-> 0]

\* C4: generate_interface and generate_interface_with_refined_prompt never
\* propagate an exception: whichever step fails, the call returns a pair whose
\* first component is None or the bytes of an image.
C4_NeverPropagates ==
    IsGenerate => /\ ~raised
                  /\ ret[1].tag \in {"none", "bytes"}

\* C5: after N execute_operation calls and M recorded prompts,
\* operations_history has exactly N entries and prompt_history exactly M, and
\* every entry still reads as it did when it was appended.
C5_HistoriesAppendOnly ==
    /\ Len(operations_history) = dispatches
    /\ Len(prompt_history) = prompt_events
    /\ \A i \in 1..Len(operations_history) :
          View(operations_history[i], machines) = ops_appended[i]
    /\ \A i \in 1..Len(prompt_history) :
          PromptView(prompt_history[i], machines) = prompts_appended[i]

\* C6: execute_operation('system overview') always returns a record with
\* success true whose data has exactly one entry per registered machine,
\* whatever the probes, the port scan and the remote collection do.
C6_OverviewAlwaysSucceeds ==
    (IsExecute /\ last.operation = "system overview")
    => /\ ret.success = TRUE
       /\ ret.data.tag = "machines"
       /\ DOMAIN View(ret, machines).data.v = Names

\* C7: 'ping' and 'port scan' with a target that is no registered name (None
\* included) raise nothing, probe nothing, return a record with success false
\* and an error naming the target, lengthen operations_history by exactly one
\* and change no machine record.
C7_UnknownTargetIsData ==
    (IsExecute /\ last.operation \in {"ping", "port scan"} /\ last.target \notin Names)
    => /\ ~raised
       /\ trace = <<>>
       /\ ret.operation = last.operation
       /\ ret.success = FALSE
       /\ ret.error.tag = "not_found"
       /\ ret.error.target = last.target
       /\ Len(operations_history) = last.ops + 1
       /\ operations_history[Len(operations_history)] = ret
       /\ machines = last.machines

C7_Witness ==
    /\ IsExecute
    /\ last.operation = "port scan"
    /\ last.target = "ghost"
    /\ ret.error = [tag |-> "not_found", target |-> "ghost"]
    /\ Len(operations_history) = 1

\* C8: for an operation name outside the catalog, execute_operation raises
\* nothing, probes no machine, changes no machine record and returns a record
\* with success false and an error naming the operation.
C8_UnknownOperationIsData ==
    (IsExecute /\ last.operation \notin Catalog)
    => /\ ~raised
       /\ trace = <<>>
       /\ ret.success = FALSE
       /\ ret.data = NoneV
       /\ ret.error.tag = "unknown_op"
       /\ ret.error.operation = last.operation
       /\ machines = last.machines

C8_Witness ==
    /\ IsExecute
    /\ last.operation = "PING"
    /\ last.target \in Names
    /\ ret.error = [tag |-> "unknown_op", operation |-> "PING"]

\* what makes a catalog operation fail: its target or a name it looks up is
\* missing from the registry, or the probe it runs fails
LookupFails ==
    \/ /\ last.operation \in {"ping", "port scan", "check disk space", "list processes"}
       /\ last.target \notin Names
    \/ /\ last.operation = "network topology"
       /\ ~({"headless-server", "laptop"} \subseteq Names)
ProbeFails ==
    \/ last.operation = "ping" /\ SomeFailed("ping")
    \/ last.operation \in {"port scan", "system overview", "network topology"}
       /\ SomeFailed("scan")
    \/ last.operation \in {"check disk space", "list processes"} /\ SomeFailed("ssh")

\* C9: for every catalog operation, target and registry content,
\* execute_operation never raises, and every failure of a probe, of remote
\* collection or of a registry lookup comes back as a record with success false
\* and a populated error.
C9_FailuresAreData ==
    (IsExecute /\ last.operation \in Catalog)
    => /\ ~raised
       /\ (LookupFails \/ ProbeFails) => (ret.success = FALSE /\ ret.error # NoneV)

\* C10: a query containing 'ping' and the names of k registered machines makes
\* generate_interface dispatch exactly k 'ping' operations, one per named
\* machine, appended to operations_history in registry order before anything
\* else the call appends.
C10_PingPerNamedMachine ==
    (IsGenerate /\ last.user_query.tag = "text"
        /\ Contains(Lower(last.user_query.v), KwPing))
    => LET mentioned == SelectSeq(order, LAMBDA n :
                            Contains(Lower(last.user_query.v), NameText(n)))
           pings == SelectSeq(Appended, LAMBDA r : r.operation = "ping")
       IN  /\ Len(pings) = Len(mentioned)
           /\ \A i \in 1..Len(mentioned) :
                 /\ Appended[i].operation = "ping"
                 /\ Appended[i].target = mentioned[i]
           /\ Len(mentioned) > 0 => dispatches = last.dispatches + Len(mentioned)

C10_Witness ==
    /\ last.call = "generate_interface"
    /\ order = <<"laptop", "headless-server">>
    /\ Len(Appended) = 4
    /\ Appended[1].operation = "ping" /\ Appended[1].target = "laptop"
    /\ Appended[2].operation = "ping" /\ Appended[2].target = "headless-server"
    /\ Appended[3].operation = "check_status"
    /\ dispatches = 2

----------------------------------------------------------------------------
(* Properties of the second pass and of the prompt records *)

IsRefinedRun == last.call = "generate_interface_with_refined_prompt"

\* the entries of trace of one kind made by the second pass
OnRefined(ev) == SelectSeq(trace, LAMBDA e : e.ev = ev /\ e.on = "refined")

\* the second generation failed: no image chunk or an exception in the
\* collaborator call, in saving the image or in writing the prompt comparison
SecondFailed ==
    \E i \in 1..Len(trace) :
        /\ trace[i].on = "refined"
        /\ trace[i].ev \in {"image", "save", "write"}
        /\ ~trace[i].ok

\* C18: in generate_interface_with_refined_prompt, once the draft pass and the
\* refinement have succeeded, the call returns the draft pass's image bytes and
\* path when the second generation fails, and the refined image's bytes and
\* path when it succeeds.
C18_SecondPassFallback ==
    (IsRefinedRun /\ Len(OnRefined("image")) = 1)
    => /\ ~raised
       /\ Events("text")[1].ok
       /\ SecondFailed => /\ ret[1] = Events("image")[1].info
                          /\ ret[2] = Events("save")[1].info
                          /\ Events("image")[1].on = "draft"
                          /\ Events("save")[1].on = "draft"
                          /\ ret[1].tag = "bytes"
                          /\ ret[2].tag = "path"
       /\ ~SecondFailed => /\ ret[1] = OnRefined("image")[1].info
                           /\ ret[2] = OnRefined("save")[1].info
                           /\ ret[1].tag = "bytes"
                           /\ ret[2] = Path("refined_network_os", img_count - 1)

C18_Witness ==
    /\ IsRefinedRun
    /\ OnRefined("image") = <<Event("image", "refined", TRUE, Bytes("png_b"))>>
    /\ OnRefined("write") = <<Event("write", "refined", FALSE, NoneV)>>
    /\ ret = <<Bytes("png_a"), Path("network_os", 0)>>

\* the position in trace of the first entry of one kind (0 if there is none)
FirstAt(ev) ==
    IF \E i \in 1..Len(trace) : trace[i].ev = ev
    THEN CHOOSE i \in 1..Len(trace) :
            trace[i].ev = ev /\ \A j \in 1..(i - 1) : trace[j].ev # ev
    ELSE 0

\* C19: every call of generate_interface appends exactly one PromptRecord
\* (user query, prompt text, timestamp, network-info snapshot) to
\* prompt_history, before the image collaborator is invoked; when the
\* collaborator yields no image the call returns (None, detail) after that one
\* attempt, the PromptRecord stays and conversation_history gains nothing.
C19_OnePromptRecordBeforeImage ==
    (last.call = "generate_interface")
    => /\ Len(prompt_history) = last.prompts + 1
       /\ DOMAIN prompt_history[Len(prompt_history)]
             = {"user_query", "prompt", "timestamp", "network_info"}
       /\ prompt_history[Len(prompt_history)].user_query = last.user_query
       /\ Len(Events("record_prompt")) = 1
       /\ Len(Events("image")) = 1
       /\ FirstAt("record_prompt") < FirstAt("image")
       /\ ~Events("image")[1].ok => /\ ~raised
                                    /\ ret[1] = NoneV
                                    /\ ret[2].tag = "msg"
                                    /\ Len(conversation_history) = last.convs

\* C20: refine_image_prompt appends a refinement PromptRecord to prompt_history
\* if and only if the text-completion collaborator succeeded; the record carries
\* the prompt text and the image path of the draft pass; when the refinement
\* fails, prompt_history is left as the draft pass left it.
C20_RefinementRecordIffSuccess ==
    (IsRefinedRun /\ Len(Events("text")) = 1)
    => /\ Events("text")[1].ok <=> Len(prompt_history) = last.prompts + 2
       /\ ~Events("text")[1].ok => Len(prompt_history) = last.prompts + 1
       /\ Events("text")[1].ok
          => /\ prompt_history[Len(prompt_history)].original_prompt
                   = prompt_history[Len(prompt_history) - 1].prompt
             /\ prompt_history[Len(prompt_history)].original_image
                   = Events("save")[1].info

\* the prompt records and collaborator calls of the last call, in order
Pipeline == SelectSeq(trace, LAMBDA e : e.ev \in {"record_prompt", "image", "text"})

\* the order generate_interface_with_refined_prompt goes through them
PipelineOrder ==
    << <<"record_prompt", "draft">>, <<"image", "draft">>, <<"text", "refine">>,
       <<"record_prompt", "refined">>, <<"image", "refined">> >>

\* C21: in one run of generate_interface_with_refined_prompt the image
\* collaborator is called at most twice and the text-completion collaborator at
\* most once, in the order draft PromptRecord, first image call, text-completion
\* call, refinement PromptRecord, second image call; the text-completion call
\* is made only after the first image call produced an image, the second image
\* call only after the refinement succeeded.
C21_PipelineOrder ==
    IsRefinedRun
    => /\ Len(Events("image")) <= 2
       /\ Len(Events("text")) <= 1
       /\ Len(Pipeline) <= Len(PipelineOrder)
       /\ \A i \in 1..Len(Pipeline) :
             <<Pipeline[i].ev, Pipeline[i].on>> = PipelineOrder[i]
       /\ Len(Pipeline) >= 3 => (Pipeline[2].ok /\ Events("save")[1].ok)
       /\ Len(Pipeline) >= 5 => Pipeline[3].ok

C21_Witness ==
    /\ IsRefinedRun
    /\ Len(Pipeline) = 5
    /\ Pipeline[5] = Event("image", "refined", TRUE, Bytes("png_a"))
    /\ Len(prompt_history) = 2
    /\ ret = <<Bytes("png_a"), Path("refined_network_os", 1)>>

----------------------------------------------------------------------------
(* Properties of the free-text front-end *)

Keywords ==
    {KwPing, KwScan, KwDisk, KwProcess, KwOverview, KwStatus, KwTopology, KwNetworkMap}

\* the query of the last call is absent, or holds none of the keywords
NoKeyword ==
    \/ last.user_query.tag = "none"
    \/ \A kw \in Keywords : ~Contains(Lower(last.user_query.v), kw)

\* C22: a query holding none of the keywords, and an absent query, make
\* generate_interface dispatch no operation: execute_operation is not called,
\* no record with a catalog operation name is appended, and what the call
\* appends is the status refresh of the machines, in registry order.
C22_NoKeywordNoDispatch ==
    (IsGenerate /\ NoKeyword)
    => /\ dispatches = last.dispatches
       /\ \A i \in 1..Len(Appended) :
             /\ Appended[i].operation = "check_status"
             /\ Appended[i].target = order[i]
       /\ Len(Events("ping")) >= 1
       /\ ~raised => /\ Len(Appended) = Len(order)
                     /\ Len(Events("ping")) = Len(order)

C22_Witness ==
    /\ last.call = "generate_interface"
    /\ last.user_query = Text(Hello)
    /\ order = <<"headless-server", "laptop">>
    /\ dispatches = 0
    /\ Len(Appended) = 2
    /\ Appended[2].target = "laptop"
    /\ Appended[2].result = "success"

\* C23: matching is case-insensitive for the keyword and for the machine
\* names: whenever the query holds 'ping' in some casing and the name of a
\* registered machine in some casing, 'ping' is dispatched against that machine.
C23_CaseInsensitive ==
    (IsGenerate /\ last.user_query.tag = "text"
        /\ Contains(Lower(last.user_query.v), KwPing))
    => \A n \in Names :
          Contains(Lower(last.user_query.v), Lower(NameText(n)))
          => \E i \in 1..Len(Appended) :
                Appended[i].operation = "ping" /\ Appended[i].target = n

\* the keyword sets in their precedence order, whether the operation takes a
\* machine, and the operation each stands for
Precedence ==
    <<[kws |-> {KwPing}, targeted |-> TRUE, operation |-> "ping"],
      [kws |-> {KwScan}, targeted |-> TRUE, operation |-> "port scan"],
      [kws |-> {KwDisk}, targeted |-> TRUE, operation |-> "check disk space"],
      [kws |-> {KwProcess}, targeted |-> TRUE, operation |-> "list processes"],
      [kws |-> {KwOverview, KwStatus}, targeted |-> FALSE,
       operation |-> "system overview"],
      [kws |-> {KwTopology, KwNetworkMap}, targeted |-> FALSE,
       operation |-> "network topology"]>>

\* entry i of Precedence matches the query of the last call
Matches(i) ==
    /\ \E kw \in Precedence[i].kws : Contains(Lower(last.user_query.v), kw)
    /\ Precedence[i].targeted
       => \E n \in Names : Contains(Lower(last.user_query.v), NameText(n))

\* the catalog operations among the records the last call appended
DispatchedKinds ==
    {Appended[i].operation : i \in 1..Len(Appended)} \cap Catalog

\* C27: generate_interface dispatches at most one kind of operation per query,
\* the first in the order ping > scan > disk > process > overview/status >
\* topology/network map whose keyword is in the query and, for a
\* machine-targeted one, for which the query names a registered machine.
C27_FirstMatchOnly ==
    (IsGenerate /\ last.user_query.tag = "text")
    => /\ Cardinality(DispatchedKinds) <= 1
       /\ \A i \in 1..Len(Precedence) :
             (Matches(i) /\ \A j \in 1..(i - 1) : ~Matches(j))
             => DispatchedKinds = {Precedence[i].operation}
       /\ (\A i \in 1..Len(Precedence) : ~Matches(i)) => DispatchedKinds = {}

C27_Witness ==
    /\ last.call = "generate_interface"
    /\ last.user_query = Text(KwPing \o Sp \o KwDisk \o Sp \o NameText("laptop"))
    /\ DispatchedKinds = {"ping"}
    /\ Appended[1].target = "laptop"
    /\ dispatches = 1

\* the keyword skipped for want of a machine name, a later keyword matching
C27_SkippedKeyword ==
    /\ last.call = "generate_interface"
    /\ last.user_query = Text(KwPing \o Sp \o KwStatus)
    /\ DispatchedKinds = {"system overview"}

----------------------------------------------------------------------------
(* Properties of the export *)

IsExport == last.call = "save_comparison_prompts"

\* the entry carries a refinement back-reference
HasBackReference(item) ==
    "original_prompt" \in DOMAIN item \/ "original_image" \in DOMAIN item

\* the prompt_history entries an exported list was made from
Entries(list) == {list[k].entry : k \in 1..Len(list)}

\* C26: save_comparison_prompts classifies a prompt_history entry as 'refined'
\* if and only if it carries a refinement back-reference, and as 'original'
\* otherwise, for every history generate_interface and refine_image_prompt
\* produce (entries recorded with no user query and queries holding the text
\* 'Refined prompt for:' included).
C26_ClassifiedByBackReference ==
    (IsExport /\ ~SomeFailed("write"))
    => /\ ret.ok
       /\ Entries(ret.refined)
             = {i \in 1..Len(prompt_history) : HasBackReference(prompt_history[i])}
       /\ Entries(ret.original)
             = {i \in 1..Len(prompt_history) : ~HasBackReference(prompt_history[i])}

\* the same for histories in which every draft was recorded with a query that
\* does not hold the text 'Refined prompt for:'
PlainQueries ==
    \A i \in 1..Len(prompt_history) :
        /\ prompt_history[i].user_query.tag # "none"
        /\ ~HasBackReference(prompt_history[i])
           => ~Contains(prompt_history[i].user_query.v, RefinedTag)
ClassifiedOnPlainQueries == PlainQueries => C26_ClassifiedByBackReference

\* a draft entry exported as 'refined'
DraftExportedAsRefined ==
    /\ IsExport
    /\ \E k \in 1..Len(ret.refined) :
          ~HasBackReference(prompt_history[ret.refined[k].entry])

----------------------------------------------------------------------------
(* Properties of the info operations and of the topology *)

IsInfoOp ==
    /\ IsExecute
    /\ last.operation \in {"check disk space", "list processes"}
    /\ last.target \in Names

\* the place in info_commands of the command whose output the operation returns
StepOf(operation) == IF operation = "check disk space" THEN 1 ELSE 2

\* the step at which the session of the call ended
Stage == IF ret.success THEN "ok" ELSE ret.error.v

\* command i of info_commands had run and been read when the session ended
Completed(i) ==
    \/ Stage = "ok"
    \/ \E j \in 1..Len(info_commands) : info_commands[j] = Stage /\ i < j

\* the machine had a stored real_info when the call began
HadSnapshot == last.machines[last.target].real_info.has

\* C24: for 'check disk space' and 'list processes' on a registered machine,
\* execute_operation answers from the stored real_info when there is one,
\* without a remote collection; with none stored it collects at most once; and
\* when the command behind the operation was collected, the call succeeds
\* with that output even though a later command of the collection failed.
C24_SnapshotOrOneCollection ==
    IsInfoOp
    => /\ HadSnapshot => (Events("ssh") = <<>> /\ ret.success)
       /\ Len(Events("ssh")) <= 1
       /\ (~HadSnapshot /\ Completed(StepOf(last.operation)))
            => /\ ret.success
               /\ ret.data.tag = "output"
               /\ ret.data.v.cmd = info_commands[StepOf(last.operation)]

\* the disk output had been read and a later command raised: the call fails
DiskReadButFailed ==
    /\ IsInfoOp
    /\ last.operation = "check disk space"
    /\ ~ret.success
    /\ ret.error = Exc("SSHException", "free -h")

\* the whole collection went through: the call returns the command's output
InfoReturned ==
    /\ IsInfoOp
    /\ ret.success
    /\ ret.data = [tag |-> "output",
                   v |-> [cmd |-> info_commands[StepOf(last.operation)],
                          at |-> clock - 1]]

IsTopology == IsExecute /\ last.operation = "network topology"

\* how many entries of a sequence satisfy a test
Count(seq, Test(_)) == Len(SelectSeq(seq, Test))

\* C25: whatever the registry holds, 'network topology' (its probes having
\* returned) succeeds with a graph that has one gateway node, one controller
\* node, one node per registered machine carrying that machine's status, and
\* one connection from the gateway to each other node.
C25_TopologyCoversRegistry ==
    (IsTopology /\ ~SomeFailed("scan"))
    => /\ ret.success
       /\ ret.data.tag = "topology"
       /\ LET g == ret.data.v
          IN  /\ Count(g.nodes, LAMBDA n : n.type = "network") = 1
              /\ Count(g.nodes, LAMBDA n : n.type = "controller") = 1
              /\ Len(g.nodes) = Cardinality(Names) + 2
              /\ \A name \in Names :
                    /\ Count(g.nodes, LAMBDA n : n.name = name) = 1
                    /\ \A i \in 1..Len(g.nodes) :
                          g.nodes[i].name = name
                          => g.nodes[i].status = machines[name].status
              /\ \A i \in 1..Len(g.nodes) :
                    g.nodes[i].type # "network"
                    => Count(g.connections,
                             LAMBDA c : c = [from |-> "Router",
                                             to |-> g.nodes[i].name]) = 1
              /\ Len(g.connections) = Len(g.nodes) - 1

\* on the registry __init__ seeds, the graph is the one C25 describes
TopologyOfSeededRegistry ==
    (IsTopology /\ ~SomeFailed("scan") /\ Names = {"headless-server", "laptop"})
    => /\ ret.success
       /\ ret.data = [tag |-> "topology", v |-> Topology(machines)]
       /\ Len(ret.data.v.nodes) = 4
       /\ Len(ret.data.v.connections) = 3

\* a registry without one of the two fixed names: no graph comes back
TopologyLookupFailed ==
    /\ IsTopology
    /\ ~SomeFailed("scan")
    /\ "headless-server" \notin Names
    /\ ret.data = NoneV
    /\ ret.error.tag = "exception"

----------------------------------------------------------------------------
(* Properties of the status cycle *)

\* the 'system overview' records the last call appended, as they read when
\* they were appended
OverviewAt ==
    {i \in (last.ops + 1)..Len(ops_appended) :
        /\ "success" \in DOMAIN ops_appended[i]
        /\ ops_appended[i].operation = "system overview"}

\* the registry as the refresh cycle of the last generate_interface found it:
\* what the overview dispatched before it left, or what the call began with
BeforeRefresh ==
    IF OverviewAt = {} THEN last.machines
    ELSE ops_appended[CHOOSE i \in OverviewAt : TRUE].data.v

\* the dispatched overview, if any, returned its machines
BeforeKnown == \A i \in OverviewAt : ops_appended[i].data.tag = "machines"

\* the last remote collection of the call on machine `name` went through
LastCollectionOk(name) ==
    LET on == SelectSeq(Events("ssh"), LAMBDA e : e.on = machines[name].ip)
    IN  on # <<>> /\ on[Len(on)].ok

\* what a finished cycle leaves of the machines it found as `before`
CycleFrame(before) ==
    \A name \in Names :
       /\ machines[name].status = "offline"
          => /\ machines[name].open_ports = before[name].open_ports
             /\ machines[name].real_info = before[name].real_info
       /\ machines[name].status = "online"
          => /\ machines[name].open_ports.has
             /\ IF LastCollectionOk(name)
                THEN /\ machines[name].real_info.has
                     /\ machines[name].real_info.info.success
                     /\ machines[name].real_info.info.disk_info.at = clock - 1
                ELSE machines[name].real_info = before[name].real_info

\* the prompt the call recorded carries open_ports and real_info of every machine
Embedded ==
    /\ Len(prompts_appended) > last.prompts
    /\ \A name \in Names :
          LET shown == prompts_appended[last.prompts + 1].network_info.machines[name]
          IN  /\ shown.open_ports = machines[name].open_ports
              /\ shown.real_info = machines[name].real_info

\* C28: the cycle generate_interface runs sets status and last_checked of
\* every machine; a machine probed offline keeps the open_ports and real_info
\* it had, a machine probed online gets new open_ports and, when collection
\* succeeded, new real_info; and the prompt recorded next embeds them.
C28_CycleFrame ==
    IsGenerate
    => /\ \A name \in Names :
             /\ machines[name].status \in {"online", "offline"}
             /\ machines[name].last_checked = clock - 1
       /\ BeforeKnown => CycleFrame(BeforeRefresh)
       /\ Embedded

\* the same, for the calls in which no scan raised
CycleFrameUnlessScanRaises ==
    (IsGenerate /\ ~SomeFailed("scan"))
    => /\ \A name \in Names :
             /\ machines[name].status \in {"online", "offline"}
             /\ machines[name].last_checked = clock - 1
       /\ BeforeKnown
       /\ CycleFrame(BeforeRefresh)
       /\ Embedded

\* a machine found online with ports and info by the overview, offline in the
\* refresh: it keeps both and the prompt shows them
KeptWhileOffline ==
    /\ IsGenerate
    /\ ~raised
    /\ OverviewAt # {}
    /\ BeforeKnown
    /\ \E name \in Names :
          /\ BeforeRefresh[name].status = "online"
          /\ BeforeRefresh[name].open_ports.ports # <<>>
          /\ BeforeRefresh[name].real_info.has
          /\ machines[name].status = "offline"
          /\ machines[name].open_ports = BeforeRefresh[name].open_ports
          /\ machines[name].real_info = BeforeRefresh[name].real_info
          /\ prompts_appended[last.prompts + 1].network_info.machines[name].real_info
                = BeforeRefresh[name].real_info

\* a scan raised on the first machine of the cycle: the next one is left as it was
CycleCutShort ==
    /\ IsGenerate
    /\ raised
    /\ \E name \in Names :
          /\ machines[name].status = "unknown"
          /\ machines[name].last_checked = 0

----------------------------------------------------------------------------
(* Properties of NetworkController *)

IsNet(call) == last.call = call
WasRegistered == last.name \in DOMAIN last.nc_machines
HadSession == last.name \in DOMAIN last.ssh_connections

\* the clients connected so far for machine n, none of which was closed
SessionsOf(n) == {c \in opened : c[1] = n}

\* C11: as long as only add_machine, execute_command and get_system_info are
\* called, no machine name ever has more than one session; and a command
\* issued to a machine that has a session in ssh_connections runs on that
\* session, with no connection attempt.
C11_OneSessionReused ==
    /\ connect_calls = 0 => \A n \in NetNames : Cardinality(SessionsOf(n)) <= 1
    /\ (IsNet("execute_command") /\ HadSession)
       => /\ Events("connect") = <<>>
          /\ Len(Events("exec")) = 1
          /\ Events("exec")[1].info.client = last.ssh_connections[last.name]
          /\ ssh_connections = last.ssh_connections
          /\ clients = last.clients
    /\ (IsNet("get_system_info") /\ HadSession)
       => /\ Events("connect") = <<>>
          /\ Len(Events("exec")) = Len(commands)
          /\ \A i \in 1..Len(commands) :
                Events("exec")[i].info.client = last.ssh_connections[last.name]
          /\ ssh_connections = last.ssh_connections

C11_Witness ==
    /\ IsNet("execute_command")
    /\ HadSession
    /\ connect_calls = 0
    /\ trace = <<Event("exec", "laptop", TRUE,
                       [client |-> Client(1), cmd |-> "hostname", stderr |-> NoText])>>
    /\ ssh_connections["laptop"] = Client(1)
    /\ SessionsOf("laptop") = {<<"laptop", 1>>}

\* C12: when a command run on a machine's existing session fails at the
\* transport level, the machine's entry is removed from ssh_connections (so
\* that the next execute_command finds no session and connects anew).
C12_FailedSessionTornDown ==
    (IsNet("execute_command") /\ HadSession /\ SomeFailed("exec"))
    => last.name \notin DOMAIN ssh_connections

\* C13: when connecting to a registered machine fails, connect_to_machine
\* makes exactly one connection attempt, stores no session, sets the machine's
\* status to 'error: <detail>' and returns False; execute_command then returns
\* a failure result without a second attempt and without running the command.
C13_ConnectFailureNoRetry ==
    (last.call \in {"connect_to_machine", "execute_command"}
        /\ WasRegistered /\ SomeFailed("connect"))
    => /\ ~raised
       /\ Len(Events("connect")) = 1
       /\ Events("exec") = <<>>
       /\ ssh_connections = last.ssh_connections
       /\ clients = last.clients
       /\ Events("connect")[1].info.v \in ConnectErrors
       /\ nc_machines[last.name].status = ErrorStatus(Events("connect")[1].info.v)
       /\ nc_machines[last.name].status
             \notin {"disconnected", "connected", "unknown", "error: "}
       /\ IsNet("connect_to_machine") => ret = FALSE
       /\ IsNet("execute_command") => ret = [error |-> CannotConnect(last.name)]

C13_Witness ==
    /\ IsNet("execute_command")
    /\ last.name = "laptop"
    /\ trace = <<Event("connect", "laptop", FALSE, Msg("auth failed"))>>
    /\ nc_machines["laptop"].status = "error: auth failed"
    /\ "laptop" \notin DOMAIN ssh_connections
    /\ ret = [error |-> CannotConnect("laptop")]

\* C14: the result of execute_command on a registered machine always carries a
\* success flag, which is true if and only if no connection attempt failed,
\* exec_command and the reads did not raise, and stderr is empty.
C14_SuccessFlagAlways ==
    (IsNet("execute_command") /\ WasRegistered)
    => /\ ~raised
       /\ "success" \in DOMAIN ret
       /\ ret.success <=> (/\ ~SomeFailed("connect")
                           /\ ~SomeFailed("exec")
                           /\ ret.stderr = NoText)

\* a command of get_system_info that did not fail: it was run, the transport
\* call went through and it wrote nothing to stderr (the success rule of
\* execute_command)
DidNotFail(cmd) ==
    \E i \in 1..Len(trace) :
        /\ trace[i].ev = "exec"
        /\ trace[i].ok
        /\ trace[i].info.cmd = cmd
        /\ trace[i].info.stderr = NoText

\* the commands that got as far as exec_command, in the order they were run
Executed == [i \in 1..Len(Events("exec")) |-> Events("exec")[i].info.cmd]

\* C15: get_system_info on a registered machine never raises; it goes through
\* the eight commands in their fixed order, and its result (also stored as the
\* machine's info) has a key exactly for the commands that did not fail.
C15_PartialInfo ==
    (IsNet("get_system_info") /\ WasRegistered)
    => /\ ~raised
       /\ Len(SelectSeq(Events("connect"), LAMBDA e : ~e.ok)) + Len(Executed)
             = Len(commands)
       /\ Executed = SubSeq([i \in 1..Len(commands) |-> commands[i].cmd],
                            Len(commands) - Len(Executed) + 1, Len(commands))
       /\ DOMAIN ret = {commands[i].key : i \in {j \in 1..Len(commands) :
                                                   DidNotFail(commands[j].cmd)}}
       /\ nc_machines[last.name].info = ret

\* C16: add_machine under a name already in the registry fails (raises
\* DuplicateMachine) and leaves the existing record unchanged.
C16_DuplicateRejected ==
    (IsNet("add_machine") /\ WasRegistered)
    => /\ raised
       /\ nc_machines = last.nc_machines

\* C17: every machine in a registry, added by add_machine or seeded at
\* construction, has status 'unknown' until the first probe or connection
\* attempt against it.
C17_UnknownUntilProbed ==
    /\ \A n \in DOMAIN nc_machines :
          n \notin attempted => nc_machines[n].status = "unknown"
    /\ \A n \in Names :
          machines[n].last_checked = 0 => machines[n].status = "unknown"

\* C29: in NetworkController, every name that has a session in
\* ssh_connections is a registered machine whose status is 'connected',
\* whatever calls were made (add_machine again for a connected name included).
C29_SessionMeansConnected ==
    \A n \in DOMAIN ssh_connections :
       /\ n \in DOMAIN nc_machines
       /\ nc_machines[n].status = "connected"

\* add_machine for a name that has a session: the session stays, the status
\* goes back to 'disconnected'
ReAddedWhileConnected ==
    /\ IsNet("add_machine")
    /\ last.name \in DOMAIN last.ssh_connections
    /\ ssh_connections = last.ssh_connections
    /\ nc_machines[last.name].status = "disconnected"

\* a session is always that of a registered machine
SessionMeansRegistered == DOMAIN ssh_connections \subseteq DOMAIN nc_machines

\* a command of get_system_info that wrote to stderr
WroteStderr(cmd) ==
    \E i \in 1..Len(trace) :
        /\ trace[i].ev = "exec"
        /\ trace[i].ok
        /\ trace[i].info.cmd = cmd
        /\ trace[i].info.stderr # NoText

\* the machine's record but for info and status, and every other record, are
\* as the call found them; status and sessions move only with a connection attempt
InfoFrame ==
    /\ nc_machines = [last.nc_machines EXCEPT
                         ![last.name].info = nc_machines[last.name].info,
                         ![last.name].status = nc_machines[last.name].status]
    /\ Events("connect") = <<>>
       => /\ nc_machines[last.name].status = last.nc_machines[last.name].status
          /\ ssh_connections = last.ssh_connections

\* C30: get_system_info stores exactly what the current run collected as the
\* machine's info and touches nothing else but through connection attempts;
\* the key of a command that fails in the run is absent from it, and a run in
\* which every command fails leaves an empty info.
C30_InfoReplaced ==
    (IsNet("get_system_info") /\ WasRegistered)
    => /\ nc_machines[last.name].info = ret
       /\ InfoFrame
       /\ \A i \in 1..Len(commands) :
             ~DidNotFail(commands[i].cmd) => commands[i].key \notin DOMAIN ret
       /\ (\A i \in 1..Len(commands) : ~DidNotFail(commands[i].cmd))
             => nc_machines[last.name].info = EmptyDict

\* the same, failure being that of the transport only (no session, or
\* exec_command raising)
InfoReplacedOnTransportFailure ==
    (IsNet("get_system_info") /\ WasRegistered)
    => /\ nc_machines[last.name].info = ret
       /\ InfoFrame
       /\ \A i \in 1..Len(commands) :
             (~DidNotFail(commands[i].cmd) /\ ~WroteStderr(commands[i].cmd))
             => commands[i].key \notin DOMAIN ret
       /\ (\A i \in 1..Len(commands) :
              ~DidNotFail(commands[i].cmd) /\ ~WroteStderr(commands[i].cmd))
             => nc_machines[last.name].info = EmptyDict

\* a command wrote to stderr (success false) and its key is in the stored info
KeyOfFailedCommandKept ==
    /\ IsNet("get_system_info")
    /\ WasRegistered
    /\ \E i \in 1..Len(commands) :
          /\ WroteStderr(commands[i].cmd)
          /\ commands[i].key \in DOMAIN nc_machines[last.name].info

====
